---- MODULE Spec2Model ----
(***************************************************************************)
(* The Synthio chatbot workflow: one execute() run threaded through the    *)
(* guardrail, planner, sql_generator, validator and writer nodes, with the *)
(* guardrail branch and the validator retry loop.                          *)
(*                                                                         *)
(* A text is a sequence of atoms.  An atom is one character ("a", " ",     *)
(* "{"), or a unit the program never looks inside: a fixed message of the  *)
(* program, a JSON key name, a JSON literal (true, 0.5), a code fence.     *)
(***************************************************************************)
EXTENDS Integers, Sequences, FiniteSets, TLC

\* ------------------------------------------------------------------ bounds

\* settings.max_retries ranges over 0 .. MaxMaxRetries
MaxMaxRetries == 5

\* ------------------------------------------------------------------ text

Whitespace == {" ", "\t", "\n"}

LowerTable ==
  [A |-> "a", B |-> "b", C |-> "c", D |-> "d", E |-> "e", F |-> "f", G |-> "g",
   H |-> "h", I |-> "i", J |-> "j", K |-> "k", L |-> "l", M |-> "m", N |-> "n",
   O |-> "o", P |-> "p", Q |-> "q", R |-> "r", S |-> "s", T |-> "t", U |-> "u",
   V |-> "v", W |-> "w", X |-> "x", Y |-> "y", Z |-> "z"]

UpperTable ==
  [a |-> "A", b |-> "B", c |-> "C", d |-> "D", e |-> "E", f |-> "F", g |-> "G",
   h |-> "H", i |-> "I", j |-> "J", k |-> "K", l |-> "L", m |-> "M", n |-> "N",
   o |-> "O", p |-> "P", q |-> "Q", r |-> "R", s |-> "S", t |-> "T", u |-> "U",
   v |-> "V", w |-> "W", x |-> "X", y |-> "Y", z |-> "Z"]

\* str.lower()
lower(s) ==
  [i \in 1..Len(s) |-> IF s[i] \in DOMAIN LowerTable THEN LowerTable[s[i]] ELSE s[i]]

\* str.upper()
upper(s) ==
  [i \in 1..Len(s) |-> IF s[i] \in DOMAIN UpperTable THEN UpperTable[s[i]] ELSE s[i]]

\* str.strip()
strip(s) ==
  LET keep == {i \in 1..Len(s) : s[i] \notin Whitespace}
      Min(S) == CHOOSE m \in S : \A o \in S : m <= o
      Max(S) == CHOOSE m \in S : \A o \in S : m >= o
  IN  IF keep = {} THEN <<>> ELSE SubSeq(s, Min(keep), Max(keep))

\* pattern in text
Contains(text, pattern) ==
  \E off \in 0..(Len(text) - Len(pattern)) :
     SubSeq(text, off + 1, off + Len(pattern)) = pattern

\* text[:n]
Take(text, n) == IF Len(text) <= n THEN text ELSE SubSeq(text, 1, n)

\* ------------------------------------------------------------------ Python values

\* A value held in a dict: ty names its type, s its text (str), n its number
\* (bool: 0/1; float: in tenths, so 0.5 is 5), d its items (dict: key text -> value).
EmptyDict == [k \in {} |-> 0]

PyNone == [ty |-> "none", s |-> <<>>, n |-> 0, d |-> EmptyDict]

PyStr(text) == [ty |-> "str", s |-> text, n |-> 0, d |-> EmptyDict]

PyNum(tenths) == [ty |-> "num", s |-> <<>>, n |-> tenths, d |-> EmptyDict]

PyBool(b) == [ty |-> "bool", s |-> <<>>, n |-> IF b THEN 1 ELSE 0, d |-> EmptyDict]

\* a list of n items (the items themselves are not modelled)
PyList(n) == [ty |-> "list", s |-> <<>>, n |-> n, d |-> EmptyDict]

PyDict(items) == [ty |-> "dict", s |-> <<>>, n |-> 0, d |-> items]

\* a dict literal of the program: {"decision": "BLOCK", ...}
MkDict(rec) == PyDict([k \in {<<a>> : a \in DOMAIN rec} |-> rec[k[1]]])

\* dict.get(key, default)
Get(dict, key, default) ==
  IF <<key>> \in DOMAIN dict.d THEN dict.d[<<key>>] ELSE default

\* bool(value)
Truthy(v) ==
  CASE v.ty = "none" -> FALSE
    [] v.ty = "str"  -> v.s # <<>>
    [] v.ty = "num"  -> v.n # 0
    [] v.ty = "bool" -> v.n = 1
    [] v.ty = "list" -> v.n # 0
    [] v.ty = "dict" -> DOMAIN v.d # {}

\* ------------------------------------------------------------------ json.loads

JsonPunct == {"{", "}", "[", "]", ":", ","}

JsonLiteralAtoms == {"true", "false", "null", "0.0", "0.2", "0.5", "0.9", "1.0"}

json_literal(atom) ==
  CASE atom = "true"  -> PyBool(TRUE)
    [] atom = "false" -> PyBool(FALSE)
    [] atom = "null"  -> PyNone
    [] atom = "0.0"   -> PyNum(0)
    [] atom = "0.2"   -> PyNum(2)
    [] atom = "0.5"   -> PyNum(5)
    [] atom = "0.9"   -> PyNum(9)
    [] atom = "1.0"   -> PyNum(10)

BadToken == [t |-> "bad", v |-> PyNone]

\* position of the first quote after position i, 0 when there is none
ClosingQuote(s, i) ==
  LET js == {j \in (i + 1)..Len(s) : s[j] = "\""}
  IN  IF js = {} THEN 0 ELSE CHOOSE j \in js : \A o \in js : j <= o

\* the JSON tokens of s from position i on; a "bad" token ends the scan
RECURSIVE Lex(_, _)
Lex(s, i) ==
  IF i > Len(s) THEN <<>>
  ELSE IF s[i] \in Whitespace THEN Lex(s, i + 1)
  ELSE IF s[i] \in JsonPunct THEN <<[t |-> s[i], v |-> PyNone]>> \o Lex(s, i + 1)
  ELSE IF s[i] \in JsonLiteralAtoms
       THEN <<[t |-> "lit", v |-> json_literal(s[i])]>> \o Lex(s, i + 1)
  ELSE IF s[i] = "\""
       THEN LET j == ClosingQuote(s, i)
            IN  IF j = 0 THEN <<BadToken>>
                ELSE <<[t |-> "str", v |-> PyStr(SubSeq(s, i + 1, j - 1))]>> \o Lex(s, j + 1)
  ELSE <<BadToken>>

IsScalarToken(tok) == tok.t \in {"str", "lit"}

\* the members of a flat object: key : value , key : value ...
MembersOk(inner) ==
  \/ Len(inner) = 0
  \/ /\ Len(inner) % 4 = 3
     /\ \A i \in 1..Len(inner) :
          CASE i % 4 = 1 -> inner[i].t = "str"
            [] i % 4 = 2 -> inner[i].t = ":"
            [] i % 4 = 3 -> IsScalarToken(inner[i])
            [] OTHER     -> inner[i].t = ","

\* the dict of the members; a repeated key keeps its last value
MembersDict(inner) ==
  LET keyAt == {i \in 1..Len(inner) : i % 4 = 1}
      keys  == {inner[i].v.s : i \in keyAt}
      last(k) == CHOOSE i \in keyAt :
                    /\ inner[i].v.s = k
                    /\ \A o \in keyAt : inner[o].v.s = k => o <= i
  IN  [k \in keys |-> inner[last(k) + 2].v]

\* the value a token sequence denotes: a scalar, an empty list or a flat object
json_value(toks) ==
  IF Len(toks) = 1 /\ IsScalarToken(toks[1])
    THEN [ok |-> TRUE, val |-> toks[1].v]
  ELSE IF Len(toks) = 2 /\ toks[1].t = "[" /\ toks[2].t = "]"
    THEN [ok |-> TRUE, val |-> PyList(0)]
  ELSE IF /\ Len(toks) >= 2
          /\ toks[1].t = "{"
          /\ toks[Len(toks)].t = "}"
          /\ MembersOk(SubSeq(toks, 2, Len(toks) - 1))
    THEN [ok |-> TRUE, val |-> PyDict(MembersDict(SubSeq(toks, 2, Len(toks) - 1)))]
  ELSE [ok |-> FALSE, val |-> PyNone]

\* json.loads(text): ok = FALSE stands for JSONDecodeError
json_loads(text) == json_value(Lex(text, 1))

\* ------------------------------------------------------------------ agents/base.py

\* response[:500] of the ValueError message
ExcerptLen == 500

\* the atom that stands for a code fence (three backticks)
Fence == "<fence>"

FirstOf(S) == CHOOSE m \in S : \A o \in S : m <= o

LastOf(S) == CHOOSE m \in S : \A o \in S : m >= o

\* the search for a fenced code block: the leftmost fence that has a later
\* fence closes at the next one; group(1) is what lies between, after an
\* optional json tag, without the surrounding whitespace
FenceMatch(response) ==
  LET fences == {i \in 1..Len(response) : response[i] = Fence}
  IN  IF Cardinality(fences) < 2 THEN [found |-> FALSE, group |-> <<>>]
      ELSE LET open  == FirstOf(fences)
               close == FirstOf(fences \ {open})
               from  == IF open + 1 < close /\ response[open + 1] = "json"
                        THEN open + 2 ELSE open + 1
           IN  [found |-> TRUE, group |-> strip(SubSeq(response, from, close - 1))]

\* the search for an object: from the first opening brace to the last closing
\* brace after it (the pattern is greedy)
BraceMatch(response) ==
  LET opens == {i \in 1..Len(response) : response[i] = "{"}
  IN  IF opens = {} THEN [found |-> FALSE, group |-> <<>>]
      ELSE LET closes == {j \in (FirstOf(opens) + 1)..Len(response) : response[j] = "}"}
           IN  IF closes = {} THEN [found |-> FALSE, group |-> <<>>]
               ELSE [found |-> TRUE,
                     group |-> SubSeq(response, FirstOf(opens), LastOf(closes))]

ParseErrorText(response) ==
  <<"Could not parse JSON from response: ">> \o Take(response, ExcerptLen) \o <<"...">>

\* json.loads on a match's text, when the search matched
MatchAttempt(match) ==
  IF match.found THEN json_loads(match.group) ELSE [ok |-> FALSE, val |-> PyNone]

\* the first attempt that succeeded, else the ValueError
FirstSuccess(direct, fenced, braced, response) ==
  IF direct.ok THEN [ok |-> TRUE, val |-> direct.val, err |-> <<>>]
  ELSE IF fenced.ok THEN [ok |-> TRUE, val |-> fenced.val, err |-> <<>>]
  ELSE IF braced.ok THEN [ok |-> TRUE, val |-> braced.val, err |-> <<>>]
  ELSE [ok |-> FALSE, val |-> PyNone, err |-> ParseErrorText(response)]

\* BaseAgent.parse_json_response: ok = FALSE stands for the ValueError, whose
\* message is err; val is whatever json.loads returned (a dict or not)
parse_json_response(response) ==
  FirstSuccess(json_loads(response),
               MatchAttempt(FenceMatch(response)),
               MatchAttempt(BraceMatch(response)),
               response)

\* what a stage hands back to the graph: a partial state update, or an exception
Returns(update) == [raised |-> FALSE, update |-> update, error |-> <<>>]

Raises(message) == [raised |-> TRUE, update |-> EmptyDict, error |-> message]

\* an LLM Gateway call: the completion text, or an exception of the client
LLMText(text) == [raises |-> FALSE, content |-> text]

LLMFailure == [raises |-> TRUE, content |-> <<>>]

LLMErrorText == <<"LLM request failed">>

AttributeErrorText == <<"object has no attribute">>

TypeErrorText == <<"comparison not supported between instances">>

\* ------------------------------------------------------------------ agents/guardrail.py

injection_patterns ==
  << <<"i","g","n","o","r","e"," ","p","r","e","v","i","o","u","s">>,
     <<"i","g","n","o","r","e"," ","a","l","l"," ","p","r","e","v","i","o","u","s">>,
     <<"i","g","n","o","r","e"," ","y","o","u","r"," ","i","n","s","t","r","u","c","t","i","o","n","s">>,
     <<"d","i","s","r","e","g","a","r","d"," ","y","o","u","r">>,
     <<"f","o","r","g","e","t"," ","y","o","u","r"," ","i","n","s","t","r","u","c","t","i","o","n","s">>,
     <<"y","o","u"," ","a","r","e"," ","n","o","w">>,
     <<"p","r","e","t","e","n","d"," ","y","o","u"," ","a","r","e">>,
     <<"a","c","t"," ","a","s"," ","i","f">>,
     <<"n","e","w"," ","i","n","s","t","r","u","c","t","i","o","n","s",":">>,
     <<"s","y","s","t","e","m"," ","p","r","o","m","p","t",":">>,
     <<"o","v","e","r","r","i","d","e",":">>,
     <<"j","a","i","l","b","r","e","a","k">>,
     <<"d","a","n"," ","m","o","d","e">>,
     <<"d","e","v","e","l","o","p","e","r"," ","m","o","d","e">> >>

sql_patterns ==
  << <<"d","r","o","p"," ","t","a","b","l","e">>,
     <<"d","e","l","e","t","e"," ","f","r","o","m">>,
     <<"t","r","u","n","c","a","t","e"," ","t","a","b","l","e">>,
     <<"u","p","d","a","t","e"," ","s","e","t">>,
     <<"i","n","s","e","r","t"," ","i","n","t","o">>,
     <<";"," ","-","-">>,
     <<"'"," ","o","r"," ","'","1","'","=","'","1">>,
     <<"u","n","i","o","n"," ","s","e","l","e","c","t">> >>

InjectionResponse ==
  <<"I noticed your message contains unusual instructions. I'm designed to help with pharmaceutical sales data analysis. Please ask a question about prescriptions, doctors, territories, or sales activities!">>

SqlInjectionResponse ==
  <<"I'm not able to process that request. I can help you analyze our pharmaceutical sales data using natural language. Try asking something like 'Who are the top 10 doctors by prescriptions?'">>

EmptyQueryResponse ==
  <<"Please enter a question about the pharmaceutical sales data.">>

DefaultBlockResponse ==
  <<"I'm not able to process that request. I'm here to help you analyze pharmaceutical sales data including prescriptions, doctor performance, territory analysis, and sales activities. Could you ask a question about our data?">>

ALLOW == <<"A","L","L","O","W">>

BLOCK == <<"B","L","O","C","K">>

\* a variant that leaves the letter case of the query as it is
Unlowered(query) == query

\* the query as the pattern loops see it
LoweredQuery(query) == lower(query)

\* GuardrailAgent.is_obvious_attack
is_obvious_attack(query) ==
  LET query_lower == LoweredQuery(query)
  IN  IF \E i \in 1..Len(injection_patterns) : Contains(query_lower, injection_patterns[i])
        THEN [is_attack |-> TRUE, response |-> InjectionResponse]
      ELSE IF \E i \in 1..Len(sql_patterns) : Contains(query_lower, sql_patterns[i])
        THEN [is_attack |-> TRUE, response |-> SqlInjectionResponse]
      ELSE [is_attack |-> FALSE, response |-> <<>>]

\* a variant of the empty-query check without the strip()
IsEmptyQueryUnstripped(user_query) == user_query = <<>>

\* the empty-query check of GuardrailAgent.execute
IsEmptyQuery(user_query) == user_query = <<>> \/ strip(user_query) = <<>>

\* does GuardrailAgent.execute reach invoke_llm for this query
GuardrailCallsLLM(user_query) == ~IsEmptyQuery(user_query)

\* a variant of the fallback that fails closed
GuardrailParseFallbackClosed(err) ==
  [guardrail_result |->
      [ty |-> "dict", s |-> <<>>, n |-> 0,
       d |-> [k \in {<<"decision">>, <<"category">>, <<"confidence">>} |->
                IF k = <<"decision">> THEN [ty |-> "str", s |-> BLOCK, n |-> 0, d |-> EmptyDict]
                ELSE IF k = <<"category">>
                  THEN [ty |-> "str", s |-> <<"parse_error">>, n |-> 0, d |-> EmptyDict]
                ELSE [ty |-> "num", s |-> <<>>, n |-> 5, d |-> EmptyDict]]],
   guardrail_passed |-> FALSE]

\* the fallback of GuardrailAgent.execute when parse_json_response raises ValueError
GuardrailParseFallback(err) ==
  [guardrail_result |->
      MkDict([decision      |-> PyStr(ALLOW),
              category      |-> PyStr(<<"parse_error">>),
              confidence    |-> PyNum(5),
              reasoning     |-> PyStr(<<"Failed to parse guardrail response: ">> \o err),
              user_response |-> PyStr(<<>>)]),
   guardrail_passed |-> TRUE]

\* result[key] = value
SetItem(dict, key, value) ==
  PyDict([k \in DOMAIN dict.d \cup {<<key>>} |-> IF k = <<key>> THEN value ELSE dict.d[k]])

\* the try block of GuardrailAgent.execute once the decision text is known
GuardrailDecided(result, decision) ==
  Returns([guardrail_result |->
              IF decision = BLOCK /\ ~Truthy(Get(result, "user_response", PyNone))
              THEN SetItem(SetItem(result, "decision", PyStr(decision)),
                           "user_response", PyStr(DefaultBlockResponse))
              ELSE SetItem(result, "decision", PyStr(decision)),
           guardrail_passed |-> decision = ALLOW])

\* result.get("decision", "BLOCK").upper(): no str, no upper()
GuardrailOnDict(result, raw) ==
  IF raw.ty # "str" THEN Raises(AttributeErrorText)
  ELSE GuardrailDecided(result, upper(raw.s))

\* GuardrailAgent.execute from the parse of the response on
GuardrailOnResponse(parsed) ==
  IF ~parsed.ok THEN Returns(GuardrailParseFallback(parsed.err))
  ELSE IF parsed.val.ty # "dict" THEN Raises(AttributeErrorText)
  ELSE GuardrailOnDict(parsed.val, Get(parsed.val, "decision", PyStr(BLOCK)))

\* GuardrailAgent.execute(state), the LLM Gateway answering llm when it is called
GuardrailAgent_execute(state, llm) ==
  IF IsEmptyQuery(state.user_query)
    THEN Returns([guardrail_result |->
                     MkDict([decision      |-> PyStr(BLOCK),
                             category      |-> PyStr(<<"empty_query">>),
                             confidence    |-> PyNum(10),
                             reasoning     |-> PyStr(<<"Empty query provided">>),
                             user_response |-> PyStr(EmptyQueryResponse)]),
                  guardrail_passed |-> FALSE])
  ELSE IF llm.raises THEN Raises(LLMErrorText)
  ELSE GuardrailOnResponse(parse_json_response(llm.content))

\* ------------------------------------------------------------------ agents/planner.py

\* the defaults PlannerAgent.execute sets with plan_dict.setdefault
PlanDefaultValues ==
  MkDict([user_intent         |-> PyStr(<<>>),
          assumptions         |-> PyList(0),
          instructions        |-> PyStr(<<>>),
          output_requirements |-> PyList(0),
          sorting_preference  |-> PyStr(<<>>),
          limit_preference    |-> PyStr(<<>>),
          complexity          |-> PyStr(<<"medium">>)])

\* the setdefault calls: a key of plan_dict keeps its value, a missing key gets
\* its default
PlanDefaults(plan_dict) ==
  PyDict([k \in DOMAIN plan_dict.d \cup DOMAIN PlanDefaultValues.d |->
            IF k \in DOMAIN plan_dict.d THEN plan_dict.d[k] ELSE PlanDefaultValues.d[k]])

\* a variant of the fallback plan that does not forward the user's question
PlannerParseFallbackBlank(user_query, err) ==
  [query_plan |->
      [ty |-> "dict", s |-> <<>>, n |-> 0,
       d |-> [k \in {<<"instructions">>} |-> [ty |-> "str", s |-> <<>>, n |-> 0, d |-> EmptyDict]]],
   error_message |-> [ty |-> "str", s |-> err, n |-> 0, d |-> EmptyDict]]

\* the plan PlannerAgent.execute falls back to when parse_json_response raises
PlannerParseFallback(user_query, err) ==
  [query_plan |->
      MkDict([user_intent         |-> PyStr(<<"Failed to analyze the question">>),
              assumptions         |-> PyList(0),
              instructions        |-> PyStr(<<"Please retrieve data to answer: ">> \o user_query),
              output_requirements |-> PyList(0),
              sorting_preference  |-> PyStr(<<>>),
              limit_preference    |-> PyStr(<<>>),
              complexity          |-> PyStr(<<"unknown">>)]),
   error_message |-> PyStr(err)]

\* PlannerAgent.execute from the parse of the response on
PlannerOnResponse(state, parsed) ==
  IF ~parsed.ok THEN Returns(PlannerParseFallback(state.user_query, parsed.err))
  ELSE IF parsed.val.ty # "dict" THEN Raises(AttributeErrorText)
  ELSE Returns([query_plan |-> PlanDefaults(parsed.val), error_message |-> PyStr(<<>>)])

\* PlannerAgent.execute(state)
PlannerAgent_execute(state, llm) ==
  IF llm.raises THEN Raises(LLMErrorText)
  ELSE PlannerOnResponse(state, parse_json_response(llm.content))

\* ------------------------------------------------------------------ core/database.py

\* what the engine does with a query: it returns rows, or it rejects the query
DbRows(n) == [rejects |-> FALSE, rows |-> n, message |-> <<>>]

DbRejects(message) == [rejects |-> TRUE, rows |-> 0, message |-> message]

\* a variant that hands back an empty result and no error for a rejected query
execute_query_swallowing(query, engine) ==
  IF query.ty # "str" \/ engine.rejects THEN [df |-> 0, error |-> PyNone]
  ELSE [df |-> engine.rows, error |-> PyNone]

\* DatabaseManager.execute_query(query): (df, error); df is kept as its length.
\* A query that is no string is rejected by text() inside the try block.
execute_query(query, engine) ==
  IF query.ty # "str" THEN [df |-> 0, error |-> PyStr(<<"Textual SQL expression expected">>)]
  ELSE IF engine.rejects THEN [df |-> 0, error |-> PyStr(engine.message)]
  ELSE [df |-> engine.rows, error |-> PyNone]

\* ------------------------------------------------------------------ agents/sql_generator.py

NoSqlText == <<"No SQL query generated">>

\* the sql_result dict
SqlResult(query, success, data, error, row_count) ==
  [query |-> query, success |-> success, data |-> data, error |-> error,
   row_count |-> row_count]

\* a variant that lets the executor's error leave the stage as an exception
SqlGeneratorExecutedRaising(sql_query, reasoning, got) ==
  IF got.error.ty = "str" /\ got.error.s # <<>>
    THEN Raises(got.error.s)
    ELSE Returns([sql_query     |-> sql_query,
                  sql_reasoning |-> reasoning,
                  sql_result    |-> SqlResult(sql_query, TRUE, [ty |-> "list", s |-> <<>>, n |-> got.df, d |-> EmptyDict],
                                              PyNone, got.df),
                  error_message |-> [ty |-> "str", s |-> <<>>, n |-> 0, d |-> EmptyDict]])

\* the three returns of SQLGeneratorAgent.execute after the query was executed
\* or found empty
SqlGeneratorExecuted(sql_query, reasoning, got) ==
  IF Truthy(got.error)
    THEN Returns([sql_query     |-> sql_query,
                  sql_reasoning |-> reasoning,
                  sql_result    |-> SqlResult(sql_query, FALSE, PyNone, got.error, 0),
                  error_message |-> got.error])
    ELSE Returns([sql_query     |-> sql_query,
                  sql_reasoning |-> reasoning,
                  sql_result    |-> SqlResult(sql_query, TRUE, PyList(got.df), PyNone, got.df),
                  error_message |-> PyStr(<<>>)])

SqlGeneratorOnDict(sql_query, reasoning, engine) ==
  IF ~Truthy(sql_query)
    THEN Returns([sql_query     |-> PyStr(<<>>),
                  sql_reasoning |-> reasoning,
                  sql_result    |-> SqlResult(PyStr(<<>>), FALSE, PyNone, PyStr(NoSqlText), 0),
                  error_message |-> PyStr(NoSqlText)])
    ELSE SqlGeneratorExecuted(sql_query, reasoning, execute_query(sql_query, engine))

\* SQLGeneratorAgent.execute from the parse of the response on
SqlGeneratorOnResponse(parsed, engine) ==
  IF ~parsed.ok
    THEN Returns([sql_query     |-> PyStr(<<>>),
                  sql_reasoning |-> PyStr(<<>>),
                  sql_result    |-> SqlResult(PyStr(<<>>), FALSE, PyNone, PyStr(parsed.err), 0),
                  error_message |-> PyStr(parsed.err)])
  ELSE IF parsed.val.ty # "dict" THEN Raises(AttributeErrorText)
  ELSE SqlGeneratorOnDict(Get(parsed.val, "sql_query", PyStr(<<>>)),
                          Get(parsed.val, "reasoning", PyStr(<<>>)),
                          engine)

\* SQLGeneratorAgent.execute(state)
SQLGeneratorAgent_execute(state, llm, engine) ==
  IF llm.raises THEN Raises(LLMErrorText)
  ELSE SqlGeneratorOnResponse(parse_json_response(llm.content), engine)

\* does this parse lead SQLGeneratorAgent.execute to db_manager.execute_query
ParsedHasSql(parsed) ==
  /\ parsed.ok
  /\ parsed.val.ty = "dict"
  /\ Truthy(Get(parsed.val, "sql_query", PyStr(<<>>)))

\* does SQLGeneratorAgent.execute reach db_manager.execute_query for this response
SqlGeneratorCallsExecutor(llm) ==
  ~llm.raises /\ ParsedHasSql(parse_json_response(llm.content))

\* ------------------------------------------------------------------ agents/validator.py

\* the retry limit written into ValidatorAgent.execute
ValidatorRetryLimit == 3

\* the confidence threshold 0.5, in tenths
LowConfidence == 5

\* the number a float or bool stands for, in tenths
Tenths(v) == IF v.ty = "bool" THEN 10 * v.n ELSE v.n

IsNumber(v) == v.ty \in {"num", "bool"}

\* should_retry and retry_count < 3
ValidatorRetryFlag(needs_retry, retry_count) ==
  needs_retry /\ retry_count < ValidatorRetryLimit

\* not is_valid or confidence < 0.5
NeedsRetry(is_valid, confidence) ==
  ~Truthy(is_valid) \/ Tenths(confidence) < LowConfidence

\* the return of the try block of ValidatorAgent.execute; comparing a
\* confidence that is no number raises TypeError
ValidatorOnDict(state, validation_dict, is_valid, confidence) ==
  IF Truthy(is_valid) /\ ~IsNumber(confidence) THEN Raises(TypeErrorText)
  ELSE Returns([validation_result |-> validation_dict,
                should_retry  |-> ValidatorRetryFlag(NeedsRetry(is_valid, confidence),
                                                     state.retry_count),
                error_message |-> IF Truthy(is_valid) THEN PyStr(<<>>)
                                  ELSE Get(validation_dict, "reasoning",
                                           PyStr(<<"Validation failed">>))])

\* a variant of the except branch that asks for no retry
ValidatorParseFallbackNoRetry(err) ==
  [validation_result |->
      [ty |-> "dict", s |-> <<>>, n |-> 0,
       d |-> [k \in {<<"is_valid">>, <<"confidence">>} |->
                IF k = <<"is_valid">> THEN [ty |-> "bool", s |-> <<>>, n |-> 0, d |-> EmptyDict]
                ELSE [ty |-> "num", s |-> <<>>, n |-> 0, d |-> EmptyDict]]],
   should_retry  |-> FALSE,
   error_message |-> [ty |-> "str", s |-> err, n |-> 0, d |-> EmptyDict]]

\* the except branch of ValidatorAgent.execute
ValidatorParseFallback(err) ==
  [validation_result |->
      MkDict([is_valid    |-> PyBool(FALSE),
              confidence  |-> PyNum(0),
              issues      |-> PyList(1),
              suggestions |-> PyList(0),
              reasoning   |-> PyStr(err)]),
   should_retry  |-> TRUE,
   error_message |-> PyStr(err)]

\* ValidatorAgent.execute from the parse of the response on
ValidatorOnResponse(state, parsed) ==
  IF ~parsed.ok THEN Returns(ValidatorParseFallback(parsed.err))
  ELSE IF parsed.val.ty # "dict" THEN Raises(AttributeErrorText)
  ELSE ValidatorOnDict(state, parsed.val,
                       Get(parsed.val, "is_valid", PyBool(FALSE)),
                       Get(parsed.val, "confidence", PyNum(0)))

\* ValidatorAgent.execute(state)
ValidatorAgent_execute(state, llm) ==
  IF llm.raises THEN Raises(LLMErrorText)
  ELSE ValidatorOnResponse(state, parse_json_response(llm.content))

\* ------------------------------------------------------------------ agents/writer.py

FormatErrorText == <<"unsupported format string">>

\* state.get("validation_result", {})
ValidationResultOf(state) ==
  IF "validation_result" \in DOMAIN state THEN state.validation_result ELSE PyDict(EmptyDict)

\* WriterAgent._format_validation_notes formats the confidence as a percentage,
\* which raises for a confidence that is no number
ValidationNotesRaise(validation_result) ==
  /\ Truthy(validation_result)
  /\ ~IsNumber(Get(validation_result, "confidence", PyNum(0)))

\* a variant of the Writer that hands the completion on untrimmed
WriterAgent_execute_untrimmed(state, llm) ==
  IF llm.raises THEN Raises(LLMErrorText)
  ELSE Returns([final_response |-> [ty |-> "str", s |-> llm.content, n |-> 0, d |-> EmptyDict]])

\* WriterAgent.execute(state)
WriterAgent_execute(state, llm) ==
  IF ValidationNotesRaise(ValidationResultOf(state)) THEN Raises(FormatErrorText)
  ELSE IF llm.raises THEN Raises(LLMErrorText)
  ELSE Returns([final_response |-> PyStr(strip(llm.content))])

\* does WriterAgent.execute reach invoke_llm in this state
WriterCallsLLM(state) == ~ValidationNotesRaise(ValidationResultOf(state))

\* ------------------------------------------------------------------ graph/nodes.py

\* what guardrail_node returns for an obvious attack
AttackBlocked(attack_response) ==
  Returns([guardrail_result |->
              MkDict([decision      |-> PyStr(BLOCK),
                      category      |-> PyStr(<<"obvious_attack">>),
                      confidence    |-> PyNum(10),
                      reasoning     |-> PyStr(<<"Detected obvious attack pattern">>),
                      user_response |-> PyStr(attack_response)]),
           guardrail_passed |-> FALSE])

\* guardrail_node
guardrail_node(state, llm) ==
  IF is_obvious_attack(state.user_query).is_attack
    THEN AttackBlocked(is_obvious_attack(state.user_query).response)
    ELSE GuardrailAgent_execute(state, llm)

\* does guardrail_node reach the LLM Gateway for this query
GuardrailNodeCallsLLM(user_query) ==
  ~is_obvious_attack(user_query).is_attack /\ GuardrailCallsLLM(user_query)

\* a variant of validator_node that leaves retry_count as it is
BumpRetryCountNever(update, retry_count) == update

\* result["retry_count"] = state.get("retry_count", 0) + 1, when result.get("should_retry")
BumpRetryCount(update, retry_count) ==
  IF update.should_retry
  THEN [k \in DOMAIN update \cup {"retry_count"} |->
          IF k = "retry_count" THEN retry_count + 1 ELSE update[k]]
  ELSE update

\* validator_node, result being what agent.execute handed back
ValidatorNodeResult(result, retry_count) ==
  IF result.raised THEN result
  ELSE Returns(BumpRetryCount(result.update, retry_count))

\* validator_node
validator_node(state, llm) ==
  ValidatorNodeResult(ValidatorAgent_execute(state, llm), state.retry_count)

\* ------------------------------------------------------------------ graph/workflow.py

BlockedDefaultResponse ==
  <<"I'm designed to help with pharmaceutical sales data analysis. Please ask a question about prescriptions, doctors, territories, or sales activities.">>

SchemaContext == <<"schema">>

\* the initial_state of SynthioWorkflow.execute
initial_state(user_query) ==
  [user_query       |-> user_query,
   schema_context   |-> SchemaContext,
   retry_count      |-> 0,
   should_retry     |-> FALSE,
   guardrail_passed |-> FALSE,
   messages         |-> <<>>]

\* the graph applies a node's partial update to the state: a key of the update
\* replaces the state's value, every other key keeps it
Merge(state, update) ==
  [k \in DOMAIN state \cup DOMAIN update |->
     IF k \in DOMAIN update THEN update[k] ELSE state[k]]

\* a variant of the guardrail check that lets every query through
check_guardrail_open(state) == "proceed"

\* SynthioWorkflow._check_guardrail
check_guardrail(state) ==
  IF state.guardrail_passed THEN "proceed" ELSE "block"

\* a variant of the edge after guardrail that always leads to planner
GuardrailEdgeOpen(state) == "planner"

\* the conditional edge after guardrail
GuardrailEdge(state) ==
  IF check_guardrail(state) = "proceed" THEN "planner" ELSE "blocked_response"

\* state.get("guardrail_result", {})
GuardrailResultOf(state) ==
  IF "guardrail_result" \in DOMAIN state THEN state.guardrail_result ELSE PyDict(EmptyDict)

\* SynthioWorkflow._create_blocked_response
create_blocked_response(state) ==
  [final_response |-> Get(GuardrailResultOf(state), "user_response",
                          PyStr(BlockedDefaultResponse)),
   sql_query      |-> PyStr(<<>>)]

\* a variant of the retry check that does not look at retry_count
should_retry_unbounded(state, max) ==
  IF state.should_retry THEN "retry" ELSE "proceed"

\* a variant of the retry check whose bound is inclusive
should_retry_inclusive(state, max) ==
  IF state.should_retry /\ state.retry_count <= max THEN "retry" ELSE "proceed"

\* SynthioWorkflow._should_retry, max being settings.max_retries
should_retry(state, max) ==
  IF state.should_retry /\ state.retry_count < max THEN "retry" ELSE "proceed"

\* a variant of the edge after validator whose retry leads back to planner
ValidatorEdgeToPlanner(state, max) ==
  IF state.should_retry /\ state.retry_count < max THEN "planner" ELSE "writer"

\* the conditional edge after validator
ValidatorEdge(state, max) ==
  IF should_retry(state, max) = "retry" THEN "sql_generator" ELSE "writer"

\* the result execute returns when ainvoke returned final_state
SuccessResult(final_state) ==
  Merge(final_state,
        [trace_metadata |-> [success |-> TRUE,
                             guardrail_passed |-> final_state.guardrail_passed]])

\* a variant of the error result that reports success and no message
ErrorResultSilent(e) ==
  [final_response   |-> [ty |-> "str", s |-> <<>>, n |-> 0, d |-> EmptyDict],
   sql_query        |-> [ty |-> "str", s |-> <<>>, n |-> 0, d |-> EmptyDict],
   guardrail_passed |-> FALSE,
   trace_metadata   |-> [success |-> TRUE, error |-> e]]

\* the result execute returns when ainvoke raised e
ErrorResult(e) ==
  [final_response   |-> PyStr(<<"An error occurred: ">> \o e),
   sql_query        |-> PyStr(<<>>),
   guardrail_passed |-> FALSE,
   trace_metadata   |-> [success |-> FALSE, error |-> e]]

\* ------------------------------------------------------------------ inputs

\* the rows a query returns: 0 .. MaxRows
MaxRows == 1

Quoted(text) == <<"\"">> \o text \o <<"\"">>

Member(key, value) == Quoted(<<key>>) \o <<":", " ">> \o value

Obj1(m) == <<"{">> \o m \o <<"}">>

Obj2(m1, m2) == <<"{">> \o m1 \o <<",", " ">> \o m2 \o <<"}">>

InFence(text) == <<"H", "i", " ", Fence, "json", "\n">> \o text \o <<"\n", Fence>>

InProse(text) == <<"O", "k", " ">> \o text \o <<" ", "!">>

Truncated(text) == SubSeq(text, 1, Len(text) - 1)

Garbage == <<"n", "o">>

\* the user queries of the model: empty and whitespace-only ones, two that match
\* no pattern, and attacks of each kind and of both
Queries ==
  { <<>>,
    <<" ">>,
    <<" ","\t","\n">>,
    <<"w","h","o">>,
    <<"D","r","o","p"," "," ","T","a","b","l","e">>,
    <<"D","R","O","P"," ","T","A","B","L","E"," ","f","a","c","t","_","r","x",";"," ","-","-">>,
    <<"I","g","n","o","r","e"," ","P","r","e","v","i","o","u","s"," ","i","n","s","t","r","u","c","t","i","o","n","s">>,
    <<"x","'"," ","O","R"," ","'","1","'","=","'","1">>,
    <<"J","A","I","L","B","R","E","A","K"," ","u","n","i","o","n"," ","s","e","l","e","c","t">> }

Completions(texts) == {LLMFailure} \cup {LLMText(t) : t \in texts}

GuardrailTexts ==
  { Obj2(Member("decision", Quoted(ALLOW)), Member("confidence", <<"0.9">>)),
    InFence(Obj1(Member("decision", Quoted(<<"a","l","l","o","w">>)))),
    Obj2(Member("decision", Quoted(BLOCK)), Member("user_response", Quoted(<<"Off topic">>))),
    InProse(Obj1(Member("decision", Quoted(<<"B","l","o","c","k">>)))),
    Obj1(Member("decision", Quoted(<<"M","A","Y","B","E">>))),
    Obj2(Member("decision", Quoted(<<"R","E","J","E","C","T">>)),
         Member("user_response", Quoted(<<>>))),
    <<"{", "}">>,
    Obj1(Member("decision", <<"null">>)),
    Truncated(Obj1(Member("decision", Quoted(BLOCK)))),
    <<"0.9">> }

PlannerTexts ==
  { Obj1(Member("instructions", Quoted(<<"count">>))),
    Garbage,
    <<"[", "]">> }

SqlGeneratorTexts ==
  { InFence(Obj1(Member("sql_query", Quoted(<<"S","E","L","E","C","T">>)))),
    Obj1(Member("sql_query", Quoted(<<>>))),
    Obj1(Member("sql_query", <<"0.9">>)),
    Garbage,
    <<"true">> }

Engines == {DbRows(n) : n \in 0..MaxRows} \cup {DbRejects(<<"no such table">>)}

ValidatorTexts ==
  { Obj2(Member("is_valid", <<"true">>), Member("confidence", <<"0.5">>)),
    Obj2(Member("is_valid", <<"true">>), Member("confidence", <<"0.2">>)),
    Obj2(Member("is_valid", <<"false">>), Member("confidence", <<"0.9">>)),
    Obj2(Member("is_valid", <<"true">>), Member("confidence", Quoted(<<"high">>))),
    <<"{", "}">>,
    Garbage,
    <<"0.9">> }

WriterTexts == { <<" ", "D", "o", "n", "e", "\n">> }

\* ------------------------------------------------------------------ state

VARIABLES
  max_retries,      \* settings.max_retries
  pc,               \* the node the graph runs next; idle, END, raised, returned
  state,            \* the AgentState of the run
  raised,           \* the message of the exception that left ainvoke
  result,           \* what execute returned
  trace,            \* history: the nodes run, in order
  llm_calls,        \* history: LLM Gateway calls
  executor_calls,   \* history: query executor calls
  retry_edges,      \* history: times the validator -> sql_generator edge was taken
  verdicts,         \* history: the leading run of invalid verdicts, and what ended it
  validated,        \* history: the last Validator pass: was a parsed response
                    \* evaluated, and the retry_count it started from
  guardrail_parse_failed, \* history: the Guardrail's LLM response raised ValueError
  asked,            \* history: the last completion a node got from the LLM Gateway
  db_call,          \* history: the executor call of the last SQL Generator invocation
  wellformed,       \* history: every answer so far was the happy path's
  response,         \* parse_json_response on its own: the text it is given
  embedded,         \* history: the JSON object the text was built around, if any
  outcome,          \* parse_json_response on its own: what the call came to
  settings,         \* startup: the Settings instance
  startup,          \* startup: the entry path taken and how far it has come
  requests,         \* two requests: the execute calls in progress on one workflow
  oracle,           \* two requests: the answers the collaborators have given, by input
  deterministic     \* two requests: the collaborators are functions of their input

\* the variables of one execute run
runVars == <<max_retries, pc, state, raised, result, trace, llm_calls, executor_calls,
             retry_edges, verdicts, validated, guardrail_parse_failed,
             asked, db_call, wellformed>>

\* the variables of a parse_json_response call on its own
parserVars == <<response, embedded, outcome>>

\* what a step of an execute run leaves alone
\* the variables of the program's startup
startupVars == <<settings, startup>>

\* the variables of two execute calls on one workflow
pairVars == <<requests, oracle, deterministic>>

otherVars == <<parserVars, startupVars, pairVars>>

vars == <<runVars, otherVars>>

\* no call of parse_json_response was made
NotParsed == [done |-> FALSE, ok |-> FALSE, val |-> PyNone, err |-> <<>>]

ParserIdle ==
  /\ response = <<>>
  /\ embedded = PyNone
  /\ outcome = NotParsed

NotStarted ==
  [entry |-> "", pc |-> "off", validated |-> FALSE, built |-> FALSE,
   entered |-> FALSE, error |-> ""]

StartupIdle ==
  /\ settings = [llm_provider |-> "openai", openai_api_key |-> FALSE,
                 azure_openai_api_key |-> FALSE, azure_openai_endpoint |-> FALSE,
                 azure_openai_deployment |-> FALSE, anthropic_api_key |-> FALSE,
                 database_exists |-> FALSE, langsmith_tracing |-> FALSE,
                 langsmith_api_key |-> FALSE]
  /\ startup = NotStarted

\* ------------------------------------------------------------------ two requests

MaxPairRetries == 2

Requests == {1, 2}

PairQueries ==
  { <<"w","h","o">>,
    <<"D","r","o","p"," "," ","T","a","b","l","e">> }

\* what the collaborators can hand a node: the LLM Gateway's completion and
\* the query executor's outcome
PairAnswers(node) ==
  CASE node = "guardrail" ->
         [llm : {LLMText(Obj1(Member("decision", Quoted(ALLOW)))),
                 LLMText(Obj2(Member("decision", Quoted(BLOCK)),
                              Member("user_response", Quoted(<<"Off topic">>))))},
          engine : {DbRows(1)}]
    [] node = "planner" ->
         [llm : {LLMText(Obj1(Member("instructions", Quoted(<<"count">>)))), LLMFailure},
          engine : {DbRows(1)}]
    [] node = "sql_generator" ->
         [llm : {LLMText(InFence(Obj1(Member("sql_query", Quoted(<<"S","E","L","E","C","T">>))))),
                 LLMText(Obj1(Member("sql_query", Quoted(<<"S","E","L","E","C","T"," ","1">>))))},
          engine : {DbRows(1)}]
    [] node = "validator" ->
         [llm : {LLMText(Obj2(Member("is_valid", <<"true">>), Member("confidence", <<"0.5">>))),
                 LLMText(Obj2(Member("is_valid", <<"false">>), Member("confidence", <<"0.9">>)))},
          engine : {DbRows(1)}]
    [] node = "writer" ->
         [llm : {LLMText(<<"D","o","n","e">>), LLMText(<<"N","o","n","e">>)},
          engine : {DbRows(1)}]
    [] OTHER ->
         [llm : {LLMFailure}, engine : {DbRows(1)}]

\* one execute call: the argument, the position in the graph, the state
\* ainvoke carries, the exception in flight, the dictionary returned, and the
\* collaborators' answers the call has received
NoRequest ==
  [user_query |-> <<>>, pc |-> "idle", state |-> EmptyDict, raised |-> <<>>,
   result |-> EmptyDict, log |-> <<>>]

\* execute up to ainvoke: initial_state is a local of the call
Submitted(user_query) ==
  [NoRequest EXCEPT !.user_query = user_query,
                    !.pc = "guardrail",
                    !.state = initial_state(user_query)]

\* a node handed back out; next is the node its edge leads to
Landed(req, out, next) ==
  IF out.raised
    THEN [req EXCEPT !.pc = "raised", !.raised = out.error]
    ELSE [req EXCEPT !.pc = next, !.state = Merge(req.state, out.update)]

GuardrailLanded(req, out) ==
  Landed(req, out, GuardrailEdge(Merge(req.state, out.update)))

ValidatorLanded(req, out, retries) ==
  Landed(req, out, ValidatorEdge(Merge(req.state, out.update), retries))

IsStage(node) ==
  node \in {"guardrail", "blocked_response", "planner", "sql_generator", "validator", "writer"}

\* one node of the graph run on the state of the call req, with the answer
\* the collaborators gave it
StageStep(req, answer, retries) ==
  CASE req.pc = "guardrail" ->
         GuardrailLanded(req, guardrail_node(req.state, answer.llm))
    [] req.pc = "blocked_response" ->
         Landed(req, Returns(create_blocked_response(req.state)), "END")
    [] req.pc = "planner" ->
         Landed(req, PlannerAgent_execute(req.state, answer.llm), "sql_generator")
    [] req.pc = "sql_generator" ->
         Landed(req, SQLGeneratorAgent_execute(req.state, answer.llm, answer.engine),
                "validator")
    [] req.pc = "validator" ->
         ValidatorLanded(req, validator_node(req.state, answer.llm), retries)
    [] req.pc = "writer" ->
         Landed(req, WriterAgent_execute(req.state, answer.llm), "END")
    [] OTHER -> req

\* execute after ainvoke: the result, or the except branch
Finished(req) ==
  CASE req.pc = "END"    -> [req EXCEPT !.pc = "returned", !.result = SuccessResult(req.state)]
    [] req.pc = "raised" -> [req EXCEPT !.pc = "returned", !.result = ErrorResult(req.raised)]
    [] OTHER             -> req

\* a variant in which every call works on the state of the first call, as
\* if the state were an attribute of the workflow instance
RequestStateShared(reqs, r) == reqs[1]

\* the state a node of call r works on: the one its own ainvoke carries
RequestState(reqs, r) == reqs[r]

\* a variant of a collaborator that does not repeat itself
RecalledForgetful(memo, key, answer) == TRUE

\* a collaborator that is a function of its input gives the answer it gave
\* before to the same input
Recalled(memo, key, answer) == key \in DOMAIN memo => answer = memo[key]

Remembered(memo, key, answer) ==
  IF key \in DOMAIN memo THEN memo ELSE memo @@ (key :> answer)

\* the input of the collaborators at a node: the node and the state it renders
\* its prompt from
OracleKey(req) == [node |-> req.pc, state |-> req.state]

PairIdle == requests = <<>> /\ oracle = <<>> /\ deterministic = FALSE

\* the last completion a node got from the LLM Gateway
NoAnswer == [node |-> "none", llm |-> LLMFailure]

\* the last SQL Generator invocation's call of db_manager.execute_query
NoDbCall ==
  [called |-> FALSE, query |-> PyNone, engine |-> DbRows(0), df |-> 0, error |-> PyNone]

\* no execute run has started
RunIdle ==
  /\ pc = "idle"
  /\ state = EmptyDict
  /\ raised = <<>>
  /\ result = EmptyDict
  /\ trace = <<>>
  /\ llm_calls = 0
  /\ executor_calls = 0
  /\ retry_edges = 0
  /\ verdicts = [passes |-> 0, lead_invalid |-> 0, breaker |-> "none"]
  /\ validated = [parsed |-> FALSE, retry_count |-> 0]
  /\ guardrail_parse_failed = FALSE
  /\ asked = NoAnswer
  /\ db_call = NoDbCall
  /\ wellformed = TRUE

Init ==
  /\ max_retries \in 0..MaxMaxRetries
  /\ ParserIdle
  /\ StartupIdle
  /\ PairIdle
  /\ pc = "idle"
  /\ state = EmptyDict
  /\ raised = <<>>
  /\ result = EmptyDict
  /\ trace = <<>>
  /\ llm_calls = 0
  /\ executor_calls = 0
  /\ retry_edges = 0
  /\ verdicts = [passes |-> 0, lead_invalid |-> 0, breaker |-> "none"]
  /\ validated = [parsed |-> FALSE, retry_count |-> 0]
  /\ guardrail_parse_failed = FALSE
  /\ asked = NoAnswer
  /\ db_call = NoDbCall
  /\ wellformed = TRUE

Asked(node, llm) == [node |-> node, llm |-> llm]

\* a query that is no string does not get as far as the engine
DbCall(query, engine, got) ==
  [called |-> TRUE, query |-> query,
   engine |-> IF query.ty = "str" THEN engine ELSE DbRows(0),
   df |-> got.df, error |-> got.error]

\* result_dict.get("sql_query", "")
SqlQueryOf(parsed) == Get(parsed.val, "sql_query", PyStr(<<>>))

ExecutorCall(llm, engine) ==
  IF SqlGeneratorCallsExecutor(llm)
  THEN DbCall(SqlQueryOf(parse_json_response(llm.content)), engine,
              execute_query(SqlQueryOf(parse_json_response(llm.content)), engine))
  ELSE NoDbCall

\* the decision a parsed Guardrail response carries, in upper case; <<>> when
\* it carries none
DecisionIn(parsed) ==
  IF /\ parsed.ok
     /\ parsed.val.ty = "dict"
     /\ Get(parsed.val, "decision", PyNone).ty = "str"
  THEN upper(Get(parsed.val, "decision", PyNone).s)
  ELSE <<>>

ExplicitDecision(llm) ==
  IF llm.raises THEN <<>> ELSE DecisionIn(parse_json_response(llm.content))

\* what one Validator response reports: "invalid" (is_valid false), "valid_ok"
\* (is_valid true with confidence >= 0.5) or "other"
VerdictOf(parsed) ==
  IF ~parsed.ok \/ parsed.val.ty # "dict" THEN "other"
  ELSE IF Get(parsed.val, "is_valid", PyNone) = PyBool(FALSE) THEN "invalid"
  ELSE IF /\ Get(parsed.val, "is_valid", PyNone) = PyBool(TRUE)
          /\ Get(parsed.val, "confidence", PyNone).ty = "num"
          /\ Get(parsed.val, "confidence", PyNone).n >= 5
       THEN "valid_ok"
  ELSE "other"

\* the response parses to a JSON object
IsObject(llm) ==
  /\ ~llm.raises
  /\ parse_json_response(llm.content).ok
  /\ parse_json_response(llm.content).val.ty = "dict"

\* the answer a node gets is the well-formed one of the happy path
WellFormed(node, llm, engine) ==
  CASE node = "guardrail"     -> ExplicitDecision(llm) = ALLOW
    [] node = "planner"       -> IsObject(llm)
    [] node = "sql_generator" -> /\ SqlGeneratorCallsExecutor(llm)
                                 /\ SqlQueryOf(parse_json_response(llm.content)).ty = "str"
                                 /\ ~engine.rejects
    [] node = "validator"     -> /\ ~llm.raises
                                 /\ VerdictOf(parse_json_response(llm.content)) = "valid_ok"
    [] node = "writer"        -> ~llm.raises
    [] OTHER                  -> FALSE

\* a node ran and handed back out; next is the node its edge leads to
Advance(node, out, next) ==
  /\ trace' = Append(trace, node)
  /\ IF out.raised
       THEN /\ pc' = "raised"
            /\ raised' = out.error
            /\ state' = state
       ELSE /\ pc' = next
            /\ raised' = raised
            /\ state' = Merge(state, out.update)

\* SynthioWorkflow.execute up to ainvoke
Execute ==
  /\ pc = "idle"
  /\ \E user_query \in Queries :
       /\ state' = initial_state(user_query)
       /\ pc' = "guardrail"
  /\ UNCHANGED <<max_retries, raised, result, trace, llm_calls, executor_calls,
                 retry_edges, verdicts, validated,
                 guardrail_parse_failed, asked, db_call, wellformed>>
  /\ UNCHANGED otherVars

\* the LLM Gateway answered, and parse_json_response raises ValueError on the answer
ParseFails(llm) == ~llm.raises /\ ~parse_json_response(llm.content).ok

AfterGuardrail(out) ==
  Advance("guardrail", out, GuardrailEdge(Merge(state, out.update)))

GuardrailStep ==
  /\ pc = "guardrail"
  /\ \E llm \in Completions(GuardrailTexts) :
       /\ AfterGuardrail(guardrail_node(state, llm))
       /\ guardrail_parse_failed' = /\ GuardrailNodeCallsLLM(state.user_query)
                                    /\ ParseFails(llm)
       /\ asked' = IF GuardrailNodeCallsLLM(state.user_query)
                   THEN Asked("guardrail", llm) ELSE asked
       /\ wellformed' = /\ GuardrailNodeCallsLLM(state.user_query)
                        /\ WellFormed("guardrail", llm, DbRows(0))
  /\ llm_calls' = llm_calls + IF GuardrailNodeCallsLLM(state.user_query) THEN 1 ELSE 0
  /\ UNCHANGED <<max_retries, result, executor_calls, retry_edges, verdicts, validated,
                 db_call>>
  /\ UNCHANGED otherVars

BlockedResponseStep ==
  /\ pc = "blocked_response"
  /\ Advance("blocked_response", Returns(create_blocked_response(state)), "END")
  /\ UNCHANGED <<max_retries, result, llm_calls, executor_calls, retry_edges, verdicts,
                 validated, guardrail_parse_failed, asked, db_call, wellformed>>
  /\ UNCHANGED otherVars

PlannerStep ==
  /\ pc = "planner"
  /\ \E llm \in Completions(PlannerTexts) :
       /\ Advance("planner", PlannerAgent_execute(state, llm), "sql_generator")
       /\ asked' = Asked("planner", llm)
       /\ wellformed' = (wellformed /\ WellFormed("planner", llm, DbRows(0)))
  /\ llm_calls' = llm_calls + 1
  /\ UNCHANGED <<max_retries, result, executor_calls, retry_edges, verdicts, validated,
                 guardrail_parse_failed, db_call>>
  /\ UNCHANGED otherVars

SqlGeneratorStep ==
  /\ pc = "sql_generator"
  /\ \E llm \in Completions(SqlGeneratorTexts), engine \in Engines :
       /\ Advance("sql_generator", SQLGeneratorAgent_execute(state, llm, engine), "validator")
       /\ executor_calls' = executor_calls + IF SqlGeneratorCallsExecutor(llm) THEN 1 ELSE 0
       /\ asked' = Asked("sql_generator", llm)
       /\ db_call' = ExecutorCall(llm, engine)
       /\ wellformed' = (wellformed /\ WellFormed("sql_generator", llm, engine))
  /\ llm_calls' = llm_calls + 1
  /\ UNCHANGED <<max_retries, result, retry_edges, verdicts, validated,
                 guardrail_parse_failed>>
  /\ UNCHANGED otherVars

Verdict(llm) ==
  IF llm.raises THEN "other" ELSE VerdictOf(parse_json_response(llm.content))

NoteVerdict(v) ==
  [passes       |-> verdicts.passes + 1,
   lead_invalid |-> IF verdicts.breaker = "none" /\ v = "invalid"
                    THEN verdicts.lead_invalid + 1 ELSE verdicts.lead_invalid,
   breaker      |-> IF verdicts.breaker = "none" /\ v # "invalid" THEN v ELSE verdicts.breaker]

AfterValidator(out) ==
  /\ Advance("validator", out, ValidatorEdge(Merge(state, out.update), max_retries))
  /\ retry_edges' = retry_edges + IF pc' = "sql_generator" THEN 1 ELSE 0

ValidatorStep ==
  /\ pc = "validator"
  /\ \E llm \in Completions(ValidatorTexts) :
       /\ AfterValidator(validator_node(state, llm))
       /\ verdicts' = NoteVerdict(Verdict(llm))
       /\ validated' = [parsed      |-> pc' # "raised" /\ ~ParseFails(llm),
                        retry_count |-> state.retry_count]
       /\ asked' = Asked("validator", llm)
       /\ wellformed' = (wellformed /\ WellFormed("validator", llm, DbRows(0)))
  /\ llm_calls' = llm_calls + 1
  /\ UNCHANGED <<max_retries, result, executor_calls, guardrail_parse_failed, db_call>>
  /\ UNCHANGED otherVars

WriterStep ==
  /\ pc = "writer"
  /\ \E llm \in Completions(WriterTexts) :
       /\ Advance("writer", WriterAgent_execute(state, llm), "END")
       /\ asked' = IF WriterCallsLLM(state) THEN Asked("writer", llm) ELSE asked
       /\ wellformed' = (wellformed /\ WellFormed("writer", llm, DbRows(0)))
  /\ llm_calls' = llm_calls + IF WriterCallsLLM(state) THEN 1 ELSE 0
  /\ UNCHANGED <<max_retries, result, executor_calls, retry_edges, verdicts, validated,
                 guardrail_parse_failed, db_call>>
  /\ UNCHANGED otherVars

\* SynthioWorkflow.execute after ainvoke returned
Return ==
  /\ pc = "END"
  /\ result' = SuccessResult(state)
  /\ pc' = "returned"
  /\ UNCHANGED <<max_retries, state, raised, trace, llm_calls, executor_calls,
                 retry_edges, verdicts, validated, guardrail_parse_failed,
             asked, db_call, wellformed>>
  /\ UNCHANGED otherVars

\* SynthioWorkflow.execute, the except branch
ReturnError ==
  /\ pc = "raised"
  /\ result' = ErrorResult(raised)
  /\ pc' = "returned"
  /\ UNCHANGED <<max_retries, state, raised, trace, llm_calls, executor_calls,
                 retry_edges, verdicts, validated, guardrail_parse_failed,
             asked, db_call, wellformed>>
  /\ UNCHANGED otherVars

Next ==
  \/ Execute
  \/ GuardrailStep
  \/ BlockedResponseStep
  \/ PlannerStep
  \/ SqlGeneratorStep
  \/ ValidatorStep
  \/ WriterStep
  \/ Return
  \/ ReturnError

Spec == Init /\ [][Next]_vars

\* ------------------------------------------------------------------ properties

\* how many times node ran
Runs(node) == Cardinality({i \in 1..Len(trace) : trace[i] = node})

\* the query holds one of the phrases, letter case aside
HoldsPhrase(query, phrases) ==
  \E i \in 1..Len(phrases) : Contains(lower(query), phrases[i])

\* the query is empty or holds whitespace only
IsBlank(query) == \A i \in 1..Len(query) : query[i] \in Whitespace

Started == pc # "idle"

\* C1: in every reachable state of a run, whatever max_retries >= 0 is configured
\* and whatever the Validator reports, retry_count <= max_retries.
C1_RetryCountWithinMax ==
  Started => state.retry_count <= max_retries

\* C2: in every reachable state, the final one included, retry_count is the
\* number of times the validator -> sql_generator edge was taken, which is the
\* number of SQL Generator runs minus one.
C2_RetryCountIsRetryEdges ==
  /\ Started => state.retry_count = retry_edges
  /\ Runs("sql_generator") >= 1 => retry_edges = Runs("sql_generator") - 1

\* not is_valid or confidence < 0.5, read off a validation result
ReportsNeedRetry(validation_result) ==
  \/ ~Truthy(Get(validation_result, "is_valid", PyBool(FALSE)))
  \/ Tenths(Get(validation_result, "confidence", PyNum(0))) < LowConfidence

\* C3: on a parsed validation response the Validator sets should_retry to
\* ((not is_valid) or confidence < 0.5) and (retry_count < max_retries), with
\* max_retries the configured value, whatever that value is.
C3_ShouldRetryUsesConfiguredMax ==
  validated.parsed =>
    state.should_retry = (/\ ReportsNeedRetry(state.validation_result)
                          /\ validated.retry_count < max_retries)

\* C4: after every Validator pass the next stage is sql_generator exactly when
\* should_retry is true and retry_count < max_retries, and writer otherwise;
\* with retry_count >= max_retries the retry edge is not taken even if
\* should_retry is true.
C4_RetryEdge ==
  [][pc = "validator" /\ pc' # "raised" =>
       /\ pc' \in {"sql_generator", "writer"}
       /\ pc' = "sql_generator" <=>
            (state'.should_retry /\ state'.retry_count < max_retries)
       /\ state'.retry_count >= max_retries => pc' = "writer"]_vars

C4_EdgeRefused ==
  /\ pc = "writer"
  /\ state.should_retry
  /\ state.retry_count >= max_retries
  /\ retry_edges >= 1

\* C5: a Validator that reports is_valid=false on its first k passes, k <
\* max_retries, and is_valid=true with confidence >= 0.5 on pass k+1: the run
\* goes on to pass k+1 (it does not leave the loop while all the verdicts so
\* far are invalid and fewer than max_retries), the SQL Generator runs k+1
\* times, retry_count ends as k, and Writer runs once, after the last pass.
C5_RetriesThenValid ==
  /\ pc = "writer" /\ verdicts.breaker = "none" => verdicts.passes >= max_retries
  /\ /\ pc \in {"writer", "END", "returned"}
     /\ raised = <<>>
     /\ verdicts.breaker = "valid_ok"
     /\ verdicts.lead_invalid < max_retries
     => /\ verdicts.passes = verdicts.lead_invalid + 1
        /\ Runs("sql_generator") = verdicts.lead_invalid + 1
        /\ state.retry_count = verdicts.lead_invalid
        /\ Runs("writer") = IF pc = "writer" THEN 0 ELSE 1
        /\ pc # "writer" => trace[Len(trace)] = "writer"
                            /\ trace[Len(trace) - 1] = "validator"

\* C6: a result of execute with guardrail_passed = false has an empty
\* sql_query, on the block path and on the error path alike.
C6_BlockedResultHasNoSql ==
  pc = "returned" /\ ~result.guardrail_passed =>
    /\ "sql_query" \in DOMAIN result
    /\ result.sql_query = PyStr(<<>>)

C6_ErrorPathReturned ==
  /\ pc = "returned"
  /\ ~result.guardrail_passed
  /\ raised # <<>>
  /\ Runs("sql_generator") >= 1
  /\ executor_calls >= 1

\* C7: once the Guardrail stage has yielded guardrail_passed = false the run
\* goes to blocked_response and ends: Planner, SQL Generator, Validator and
\* Writer do not run, the query executor is not called, sql_result is not set.
C7_BlockedRunStops ==
  Runs("guardrail") = 1 /\ raised = <<>> /\ ~state.guardrail_passed =>
    /\ pc \in {"blocked_response", "END", "returned"}
    /\ trace = IF pc = "blocked_response" THEN <<"guardrail">>
               ELSE <<"guardrail", "blocked_response">>
    /\ executor_calls = 0
    /\ "sql_result" \notin DOMAIN state
    /\ "sql_result" \notin DOMAIN result

C7_BlockedByLLM ==
  /\ pc = "returned"
  /\ ~state.guardrail_passed
  /\ llm_calls = 1
  /\ trace = <<"guardrail", "blocked_response">>

\* C8: a query that holds one of the prompt-injection or SQL-injection phrases,
\* letter case aside: the run makes no LLM Gateway call, ends with
\* guardrail_passed = false, and final_response is the fixed rejection text of
\* the matched category (the SQL-injection text for DROP TABLE fact_rx; --).
C8_AttackBlockedWithoutLLM ==
  /\ Started
  /\ HoldsPhrase(state.user_query, injection_patterns)
       \/ HoldsPhrase(state.user_query, sql_patterns)
  => /\ llm_calls = 0
     /\ raised = <<>>
     /\ pc \in {"guardrail", "blocked_response", "END", "returned"}
     /\ pc # "guardrail" => ~state.guardrail_passed
     /\ pc = "returned" =>
          /\ ~result.guardrail_passed
          /\ result.final_response \in
               {PyStr(InjectionResponse) :
                  b \in {HoldsPhrase(state.user_query, injection_patterns)} \ {FALSE}}
               \cup {PyStr(SqlInjectionResponse) :
                  b \in {HoldsPhrase(state.user_query, sql_patterns)} \ {FALSE}}
          /\ ~HoldsPhrase(state.user_query, injection_patterns)
               => result.final_response = PyStr(SqlInjectionResponse)
          /\ ~HoldsPhrase(state.user_query, sql_patterns)
               => result.final_response = PyStr(InjectionResponse)

DropTableQuery ==
  <<"D","R","O","P"," ","T","A","B","L","E"," ","f","a","c","t","_","r","x",";"," ","-","-">>

C8_DropTableRejected ==
  /\ pc = "returned"
  /\ state.user_query = DropTableQuery
  /\ result.final_response = PyStr(SqlInjectionResponse)
  /\ llm_calls = 0

\* C9: an empty or whitespace-only query: the run makes no LLM Gateway call and
\* ends with guardrail_passed = false, final_response the fixed empty-query
\* rejection text, and sql_query "".
C9_BlankQueryBlocked ==
  Started /\ IsBlank(state.user_query) =>
    /\ llm_calls = 0
    /\ raised = <<>>
    /\ pc \in {"guardrail", "blocked_response", "END", "returned"}
    /\ pc = "returned" =>
         /\ ~result.guardrail_passed
         /\ result.final_response = PyStr(EmptyQueryResponse)
         /\ result.sql_query = PyStr(<<>>)

C9_WhitespaceRejected ==
  /\ pc = "returned"
  /\ state.user_query = <<" ", "\t", "\n">>
  /\ result.final_response = PyStr(EmptyQueryResponse)

\* C10: a non-empty query that matches no attack pattern, and a Guardrail LLM
\* response that cannot be parsed as JSON: the Guardrail fails open, with
\* guardrail_result decision ALLOW, category parse_error, confidence 0.5 and
\* guardrail_passed = true, and the run proceeds to Planner.
C10_GuardrailFailsOpen ==
  guardrail_parse_failed =>
    /\ ~IsBlank(state.user_query)
    /\ ~HoldsPhrase(state.user_query, injection_patterns)
    /\ ~HoldsPhrase(state.user_query, sql_patterns)
    /\ state.guardrail_passed
    /\ Get(state.guardrail_result, "decision", PyNone) = PyStr(ALLOW)
    /\ Get(state.guardrail_result, "category", PyNone) = PyStr(<<"parse_error">>)
    /\ Get(state.guardrail_result, "confidence", PyNone) = PyNum(5)
    /\ pc # "blocked_response"
    /\ Runs("blocked_response") = 0
    /\ IF Len(trace) = 1 THEN pc = "planner" ELSE trace[2] = "planner"

C10_FailedOpenToPlanner ==
  guardrail_parse_failed /\ pc = "planner"

\* the stage that position i of a run's trace may hold, in a trace of length n:
\* guardrail, then blocked_response or planner, then sql_generator and
\* validator in turn, a writer in place of the last sql_generator
StageAllowedAt(i, n, second) ==
  CASE i = 1 -> {"guardrail"}
    [] i = 2 -> {"blocked_response", "planner"}
    [] i > 2 /\ second = "blocked_response" -> {}
    [] i > 2 /\ second # "blocked_response" /\ i % 2 = 0 -> {"validator"}
    [] i > 2 /\ second # "blocked_response" /\ i % 2 = 1 ->
         IF i = n /\ i >= 5 THEN {"sql_generator", "writer"} ELSE {"sql_generator"}

\* C11: in a run that raises no exception the stages executed are guardrail,
\* blocked_response, or guardrail, planner, one or more times sql_generator
\* followed by validator, then writer: guardrail and planner run at most once,
\* every sql_generator is followed at once by validator, writer runs once and
\* last, nothing runs after blocked_response or writer.
C11_StageOrder ==
  raised = <<>> =>
    /\ \A i \in 1..Len(trace) :
         trace[i] \in StageAllowedAt(i, Len(trace), IF Len(trace) >= 2 THEN trace[2] ELSE "")
    /\ Runs("guardrail") <= 1 /\ Runs("planner") <= 1 /\ Runs("writer") <= 1
    /\ trace # <<>> /\ trace[Len(trace)] = "sql_generator" => pc = "validator"
    /\ trace # <<>> /\ trace[Len(trace)] \in {"blocked_response", "writer"}
         <=> pc \in {"END", "returned"}
    /\ pc \in {"END", "returned"} /\ trace[Len(trace)] = "writer" =>
         /\ Runs("writer") = 1
         /\ Runs("sql_generator") >= 1
         /\ Runs("sql_generator") = Runs("validator")

C11_ThreeRoundsThenWriter ==
  /\ pc = "returned"
  /\ raised = <<>>
  /\ Runs("sql_generator") = 3
  /\ trace[Len(trace)] = "writer"

\* C12: when a stage raises an unhandled exception, execute returns a result
\* whose final_response describes the error, whose sql_query is "" and whose
\* trace_metadata.success is false; no stage runs after the failing one and the
\* failing stage is not run again.
C12_ErrorIsTerminal ==
  [][raised' # <<>> =>
       IF raised = <<>>
       THEN /\ pc' = "raised"
            /\ Len(trace') = Len(trace) + 1
            /\ trace'[Len(trace')] = pc
       ELSE /\ pc = "raised" /\ pc' = "returned"
            /\ trace' = trace
            /\ raised' = raised
            /\ result'.final_response = PyStr(<<"An error occurred: ">> \o raised)
            /\ result'.sql_query = PyStr(<<>>)
            /\ result'.trace_metadata.success = FALSE]_vars

C12_FailedInLoopReturned ==
  /\ pc = "returned"
  /\ raised # <<>>
  /\ Runs("validator") >= 2
  /\ result.final_response = PyStr(<<"An error occurred: ">> \o raised)

\* C13: whatever text the LLM answers at a JSON-parsing stage (unparsable,
\* wrapped in prose or fences, or valid JSON that is no object), the stage uses
\* the parsed object or its own fallback: a run ends on the error path only
\* when the LLM Gateway itself failed, never because of the format of a
\* response.
C13_FormatNeverAborts ==
  raised # <<>> => raised = LLMErrorText

AppendOnlyFields ==
  {"guardrail_result", "query_plan", "sql_query", "sql_result", "validation_result",
   "final_response"}

\* the field of the workflow state holds a non-empty value
IsSet(s, field) ==
  /\ field \in DOMAIN s
  /\ field # "sql_result" => Truthy(s[field])

\* C14: once a stage has set guardrail_result, query_plan, sql_query,
\* sql_result, validation_result or final_response to a non-empty value, no
\* later step of the run, a retried SQL Generator included, resets it to empty
\* or drops it.
C14_AppendOnly ==
  [][\A field \in AppendOnlyFields : IsSet(state, field) => IsSet(state', field)]_vars

\* C18: for every max_retries >= 0 and whatever the LLM Gateway and the query
\* executor answer, a run reaches a terminal state after finitely many stage
\* executions: every stage execution lengthens the trace, the trace never holds
\* more than 2 * max_retries + 5 stages, and a run that has not returned
\* always has a next step, so the validator -> sql_generator loop cannot run
\* forever.
C18_Terminates ==
  /\ Len(trace) <= 2 * max_retries + 5
  /\ pc = "returned" \/ ENABLED Next
  /\ pc \in {"END", "raised"} => ENABLED (Next /\ pc' = "returned")

C18_LongestRunReturned ==
  /\ pc = "returned"
  /\ max_retries >= 4
  /\ Runs("validator") = max_retries
  /\ trace[Len(trace)] = "writer"

\* ------------------------------------------------------------------ parse_json_response on its own

\* settings.max_retries when MAX_RETRIES is not set
DefaultMaxRetries == 3

\* the length of the long text, one character more than the excerpt holds
LongLen == 501

\* JSON objects and the texts that denote them
ObjectTexts ==
  { [text   |-> Obj1(Member("decision", Quoted(BLOCK))),
     object |-> MkDict([decision |-> PyStr(BLOCK)])],
    [text   |-> Obj2(Member("is_valid", <<"true">>), Member("confidence", <<"0.5">>)),
     object |-> MkDict([is_valid |-> PyBool(TRUE), confidence |-> PyNum(5)])],
    [text   |-> <<"{", "}">>,
     object |-> PyDict(EmptyDict)] }

\* a code block without the json tag
InPlainFence(text) == <<Fence, "\n">> \o text \o <<"\n", Fence>>

\* the ways an LLM text carries an object: alone, in a fence, in prose (with
\* and without braces of its own), in a fence that is never closed
ObjectWrappings(text) ==
  { text,
    InFence(text),
    InPlainFence(text),
    InFence(text) \o <<" ", "{", "x", "}">>,
    InProse(text),
    <<"\n", " ">> \o text \o <<"\n">>,
    <<"S", "e", "e", ":", " ">> \o text,
    InProse(text) \o <<" ", "(", "s", "e", "e", " ", "{", "n", "}", ")">>,
    <<"S", "e", "t", " ", "{", "x", "}", ":", " ">> \o text,
    <<"A", " ">> \o text \o <<" ", "B", " ">> \o text,
    <<Fence, "s", "q", "l", "\n", "x", "\n", Fence, " ">> \o text,
    <<Fence, "json", "\n">> \o text }

\* texts that hold no JSON object
PlainTexts ==
  { <<>>,
    <<" ">>,
    Garbage,
    <<"0.9">>,
    <<"true">>,
    <<"null">>,
    <<"[", "]">>,
    Quoted(<<"h", "i">>),
    Truncated(Obj1(Member("decision", Quoted(BLOCK)))),
    <<"{", "\"", "a", "\"", ":", "1.0", ",", "}">>,
    <<"}", " ", "{">>,
    [i \in 1..LongLen |-> "x"] }

PlainWrappings(text) == {text, InFence(text), InProse(text)}

\* the texts parse_json_response is given, each with the object it was built
\* around (None when it was built around none)
ParserInputs ==
  UNION { {[text |-> w, object |-> o.object] : w \in ObjectWrappings(o.text)} :
          o \in ObjectTexts }
  \cup UNION { {[text |-> w, object |-> PyNone] : w \in PlainWrappings(t)} :
               t \in PlainTexts }

InitParser ==
  /\ max_retries = DefaultMaxRetries
  /\ RunIdle
  /\ StartupIdle
  /\ PairIdle
  /\ \E input \in ParserInputs :
       /\ response = input.text
       /\ embedded = input.object
  /\ outcome = NotParsed

\* the call returned val, or raised ValueError(err)
Parsed(got) == [done |-> TRUE, ok |-> got.ok, val |-> got.val, err |-> got.err]

\* one call of parse_json_response(response)
Parse ==
  /\ ~outcome.done
  /\ outcome' = Parsed(parse_json_response(response))
  /\ UNCHANGED <<response, embedded, runVars, startupVars, pairVars>>

NextParser == Parse

SpecParser == InitParser /\ [][NextParser]_vars

\* C19: on every input text parse_json_response has two outcomes and no other:
\* it returns a mapping (a JSON object), or it fails with the parse error.
C19_MappingOrParseError ==
  outcome.done =>
    \/ outcome.ok /\ outcome.val.ty = "dict"
    \/ ~outcome.ok /\ outcome.err # <<>>

\* the excerpt of the text that the diagnostic carries
Excerpt(err) == SubSeq(err, 2, Len(err) - 1)

\* C20: on every text that holds an embedded JSON object, in a fence with or
\* without the json tag or surrounded by prose, parse_json_response returns
\* that object; on every text with no object it fails, with a diagnostic that
\* carries at most 500 characters of the text.
C20_RecoversEmbeddedObject ==
  outcome.done =>
    IF embedded # PyNone
    THEN outcome.ok /\ outcome.val = embedded
    ELSE /\ ~outcome.ok
         /\ Len(Excerpt(outcome.err)) <= 500
         /\ Excerpt(outcome.err) = SubSeq(response, 1, Len(Excerpt(outcome.err)))

\* ------------------------------------------------------------------ startup

Providers == {"openai", "azure_openai", "anthropic", "ollama", "other"}

\* the ways into the program: run_cli, launch_app, SynthioChatbot, create_workflow
EntryPaths == {"cli", "web_ui", "SynthioChatbot", "create_workflow"}

\* the settings the environment can supply: a credential is kept as whether it
\* is non-empty, the database path as whether the file exists
SettingsSpace ==
  [llm_provider            : Providers,
   openai_api_key          : BOOLEAN,
   azure_openai_api_key    : BOOLEAN,
   azure_openai_endpoint   : BOOLEAN,
   azure_openai_deployment : BOOLEAN,
   anthropic_api_key       : BOOLEAN,
   database_exists         : BOOLEAN,
   langsmith_tracing       : BOOLEAN,
   langsmith_api_key       : BOOLEAN]

\* Settings.validate: "ok", or the exception it raises
validate(s) ==
  IF ~s.database_exists THEN "FileNotFoundError"
  ELSE IF s.llm_provider = "openai" /\ ~s.openai_api_key THEN "ValueError"
  ELSE IF /\ s.llm_provider = "azure_openai"
          /\ \/ ~s.azure_openai_api_key
             \/ ~s.azure_openai_endpoint
             \/ ~s.azure_openai_deployment
       THEN "ValueError"
  ELSE IF s.llm_provider = "anthropic" /\ ~s.anthropic_api_key THEN "ValueError"
  ELSE IF s.langsmith_tracing /\ ~s.langsmith_api_key THEN "ValueError"
  ELSE "ok"

\* the credentials the client of the selected provider is built from are there
ClientCredentialsGiven(s) ==
  CASE s.llm_provider = "openai"       -> s.openai_api_key
    [] s.llm_provider = "azure_openai" -> /\ s.azure_openai_api_key
                                          /\ s.azure_openai_endpoint
                                          /\ s.azure_openai_deployment
    [] s.llm_provider = "anthropic"    -> s.anthropic_api_key
    [] OTHER                           -> TRUE

\* _create_llm_client: the outcomes of building the client. An unsupported
\* provider raises ValueError; what a client class does with an empty
\* credential is the library's business: it may build the client or raise.
create_llm_client(s) ==
  IF s.llm_provider \notin {"openai", "azure_openai", "anthropic", "ollama"}
    THEN {"ValueError"}
  ELSE IF ClientCredentialsGiven(s) THEN {"client"}
  ELSE {"client", "library error"}

\* SynthioWorkflow.__init__: the outcomes of building the workflow. It reads
\* the schema through the engine; on a missing file the engine may create an
\* empty database or fail to open it.
SynthioWorkflow_init(s) ==
  IF s.database_exists THEN {"workflow"} ELSE {"workflow", "database error"}

InitStartup ==
  /\ max_retries = DefaultMaxRetries
  /\ RunIdle
  /\ ParserIdle
  /\ PairIdle
  /\ settings \in SettingsSpace
  /\ \E entry \in EntryPaths : startup = [NotStarted EXCEPT !.entry = entry, !.pc = "start"]

\* SynthioChatbot.__init__ and SynthioChatUI.__init__: the object is made, the
\* workflow is not built yet
Construct ==
  /\ startup.pc = "start"
  /\ startup.entry # "create_workflow"
  /\ startup' = [startup EXCEPT !.pc = "constructed"]
  /\ UNCHANGED settings

\* the first question reaches ask / process_query_sync, or the caller calls
\* create_workflow: the workflow property calls create_workflow, which starts
\* with _create_llm_client
CreateLLMClient ==
  /\ \/ startup.pc = "constructed"
     \/ startup.pc = "start" /\ startup.entry = "create_workflow"
  /\ \E got \in create_llm_client(settings) :
       startup' = IF got = "client"
                  THEN [startup EXCEPT !.pc = "client_made"]
                  ELSE [startup EXCEPT !.pc = "failed", !.error = got]
  /\ UNCHANGED settings

\* create_workflow goes on to SynthioWorkflow(llm_client, db_path)
BuildWorkflow ==
  /\ startup.pc = "client_made"
  /\ \E got \in SynthioWorkflow_init(settings) :
       startup' = IF got = "workflow"
                  THEN [startup EXCEPT !.pc = "built", !.built = TRUE]
                  ELSE [startup EXCEPT !.pc = "failed", !.error = got]
  /\ UNCHANGED settings

\* workflow.execute(question): the query enters the pipeline
EnterPipeline ==
  /\ startup.pc = "built"
  /\ startup' = [startup EXCEPT !.pc = "serving", !.entered = TRUE]
  /\ UNCHANGED settings

NextStartup ==
  \/ Construct /\ UNCHANGED <<runVars, parserVars, pairVars>>
  \/ CreateLLMClient /\ UNCHANGED <<runVars, parserVars, pairVars>>
  \/ BuildWorkflow /\ UNCHANGED <<runVars, parserVars, pairVars>>
  \/ EnterPipeline /\ UNCHANGED <<runVars, parserVars, pairVars>>

SpecStartup == InitStartup /\ [][NextStartup]_vars

\* C15: configuration is validated at startup: on every entry path the
\* settings validation has run before the workflow is built, and settings with
\* missing credentials for the selected provider or a missing database do not
\* get as far as a built workflow or a query in the pipeline.
C15_ValidatedBeforeBuild ==
  /\ startup.pc \in {"client_made", "built", "serving"} => startup.validated
  /\ startup.built \/ startup.entered =>
       /\ settings.database_exists
       /\ ClientCredentialsGiven(settings)

\* ------------------------------------------------------------------ two requests: the specification

InitPair ==
  /\ max_retries \in 1..MaxPairRetries
  /\ RunIdle
  /\ ParserIdle
  /\ StartupIdle
  /\ requests = [r \in Requests |-> NoRequest]
  /\ oracle = <<>>
  /\ deterministic \in BOOLEAN

\* execute(user_query) is called
Submit(r) ==
  /\ requests[r].pc = "idle"
  /\ \E user_query \in PairQueries :
       requests' = [requests EXCEPT ![r] = Submitted(user_query)]
  /\ UNCHANGED <<oracle, deterministic>>

\* the call r is resumed at its suspension point and runs its next node
Stage(r) ==
  /\ IsStage(requests[r].pc)
  /\ \E answer \in PairAnswers(requests[r].pc) :
       /\ deterministic => Recalled(oracle, OracleKey(RequestState(requests, r)), answer)
       /\ oracle' = IF deterministic
                    THEN Remembered(oracle, OracleKey(RequestState(requests, r)), answer)
                    ELSE oracle
       /\ requests' =
            [requests EXCEPT
               ![r] = [StageStep(RequestState(requests, r), answer, max_retries)
                         EXCEPT !.log = Append(requests[r].log, answer)]]
  /\ UNCHANGED deterministic

\* ainvoke is over: execute returns
Finish(r) ==
  /\ requests[r].pc \in {"END", "raised"}
  /\ requests' = [requests EXCEPT ![r] = Finished(RequestState(requests, r))]
  /\ UNCHANGED <<oracle, deterministic>>

NextPair ==
  \/ \E r \in Requests : Submit(r) /\ UNCHANGED <<runVars, parserVars, startupVars>>
  \/ \E r \in Requests : Stage(r) /\ UNCHANGED <<runVars, parserVars, startupVars>>
  \/ \E r \in Requests : Finish(r) /\ UNCHANGED <<runVars, parserVars, startupVars>>

SpecPair == InitPair /\ [][NextPair]_vars

\* the field of a returned dictionary, None when it has none
Field(res, name) == IF name \in DOMAIN res THEN res[name] ELSE PyNone

BothReturned == \A r \in Requests : requests[r].pc = "returned"

RECURSIVE Replayed(_, _, _)
Replayed(req, log, retries) ==
  IF log = <<>> \/ ~IsStage(req.pc) THEN req
  ELSE Replayed(StageStep(req, Head(log), retries), Tail(log), retries)

RunAlone(user_query, log, retries) ==
  Finished(Replayed(Submitted(user_query), log, retries))

\* C17: under every interleaving of two concurrent execute calls, each call
\* returns what it would have returned running alone with the answers it
\* received, and a step of one call leaves the other call's state as it was.
C17_ConcurrentRunsIndependent ==
  \A r \in Requests :
    requests[r].pc = "returned" =>
      /\ requests[r].result =
           RunAlone(requests[r].user_query, requests[r].log, max_retries).result
      /\ requests[r].state =
           RunAlone(requests[r].user_query, requests[r].log, max_retries).state

\* both calls returned after interleaved stages that took different paths
C17_InterleavedDifferentPaths ==
  /\ BothReturned
  /\ requests[1].user_query = requests[2].user_query
  /\ requests[1].state.retry_count >= 1
  /\ requests[2].state.retry_count = 0
  /\ requests[1].result # requests[2].result
  /\ requests[2].result.trace_metadata.success

\* ------------------------------------------------------------------ properties of the results and the stages

\* the decision the Guardrail stage of this run came to, <<>> when it came to none
GuardrailDecisionOf(s) ==
  IF Get(GuardrailResultOf(s), "decision", PyNone).ty = "str"
  THEN Get(GuardrailResultOf(s), "decision", PyNone).s
  ELSE <<>>

\* C21: in every result execute returns, guardrail_passed is true exactly
\* when the Guardrail stage's decision for the run was ALLOW.
C21_PassedIffAllowed ==
  pc = "returned" =>
    (result.guardrail_passed <=> upper(GuardrailDecisionOf(state)) = ALLOW)

\* the run went down the block path
BlockPathTaken == Runs("blocked_response") = 1

\* C22: every run that ends on the block path returns a non-empty final_response
\* that is a message: the Guardrail's user_response, or the default rejection
\* message when the Guardrail supplied none.
C22_BlockedResponseIsMessage ==
  pc = "returned" /\ BlockPathTaken =>
    /\ result.final_response.ty = "str"
    /\ result.final_response.s # <<>>

\* C23: the happy path. For a non-empty query that matches no attack pattern,
\* when every stage got its well-formed answer (the Guardrail an ALLOW decision,
\* the Planner a JSON object, the SQL Generator an object with a non-empty
\* sql_query that the executor answered with n rows, the Validator is_valid
\* true with confidence >= 0.5, the Writer a text), each of the five stages
\* ran exactly once and the result holds guardrail_passed = true, the generated
\* sql_query, sql_result.success = true with row_count = n, retry_count = 0 and
\* the Writer's trimmed text as final_response.
C23_HappyPath ==
  pc = "returned" /\ wellformed =>
    /\ trace = <<"guardrail", "planner", "sql_generator", "validator", "writer">>
    /\ raised = <<>>
    /\ result.guardrail_passed
    /\ result.sql_query = db_call.query
    /\ result.sql_query.s # <<>>
    /\ result.sql_result.success
    /\ result.sql_result.row_count = db_call.engine.rows
    /\ result.sql_result.error = PyNone
    /\ result.retry_count = 0
    /\ asked.node = "writer"
    /\ result.final_response = PyStr(strip(asked.llm.content))
    /\ result.trace_metadata.success

\* a happy run whose query returned a row and whose Writer text had blanks to trim
C23_HappyRunWithRow ==
  /\ pc = "returned"
  /\ wellformed
  /\ db_call.engine.rows = MaxRows
  /\ result.sql_result.row_count = MaxRows
  /\ asked.llm.content # strip(asked.llm.content)
  /\ result.final_response.s # <<>>

\* C24: each SQL Generator invocation calls the query executor once when the
\* LLM response parses to an object with a non-empty sql_query and not at all
\* otherwise; when it does not call it, it returns a sql_result with
\* success = false, data = null, row_count = 0 and the error "No SQL query
\* generated" or the parse error text.
C24_ExecutorCalledOncePerSql ==
  [][pc = "sql_generator" /\ ~asked'.llm.raises =>
       IF ParsedHasSql(parse_json_response(asked'.llm.content))
       THEN executor_calls' = executor_calls + 1
       ELSE /\ executor_calls' = executor_calls
            /\ pc' = "validator"
            /\ state'.sql_result.success = FALSE
            /\ state'.sql_result.data = PyNone
            /\ state'.sql_result.row_count = 0
            /\ state'.sql_result.error \in
                 {PyStr(NoSqlText), PyStr(parse_json_response(asked'.llm.content).err)}]_vars

\* the executor was called by the last SQL Generator invocation and rejected the SQL
ExecutorRejected(call) == call.called /\ call.engine.rejects

\* C25: when the query executor rejects the generated SQL, the SQL Generator
\* does not raise and does not call the executor again: it returns a sql_result
\* with success = false, data = null, row_count = 0 and the executor's error
\* text, the run goes on to the Validator, and the SQL is generated again only
\* over the Validator's retry edge.
C25_RejectionIsAResult ==
  [][/\ pc = "sql_generator" /\ ExecutorRejected(db_call') =>
          /\ pc' = "validator"
          /\ raised' = <<>>
          /\ executor_calls' = executor_calls + 1
          /\ state'.sql_query = db_call'.query
          /\ state'.sql_result =
               SqlResult(db_call'.query, FALSE, PyNone, PyStr(db_call'.engine.message), 0)
     /\ ExecutorRejected(db_call) /\ pc' = "sql_generator" /\ pc # "sql_generator" =>
          /\ pc = "validator"
          /\ should_retry(state', max_retries) = "retry"
          /\ retry_edges' = retry_edges + 1
          /\ executor_calls' = executor_calls]_vars

\* the executor rejected the SQL, the Validator sent the run back, and the SQL
\* Generator is about to run again
C25_RejectedThenRetried ==
  /\ pc = "sql_generator"
  /\ ExecutorRejected(db_call)
  /\ state.sql_result.error = PyStr(db_call.engine.message)
  /\ retry_edges = 1
  /\ executor_calls = 1

\* C26: when the Validator's LLM response cannot be parsed, the Validator
\* returns a validation_result with is_valid = false and confidence = 0.0 and
\* sets should_retry = true, whatever retry_count is.
C26_ValidatorParseFailureRetries ==
  [][pc = "validator" /\ ParseFails(asked'.llm) =>
       /\ raised' = <<>>
       /\ Get(state'.validation_result, "is_valid", PyNone) = PyBool(FALSE)
       /\ Get(state'.validation_result, "confidence", PyNone) = PyNum(0)
       /\ state'.should_retry = TRUE
       /\ state'.error_message = PyStr(parse_json_response(asked'.llm.content).err)]_vars

\* an unparsable Validator response at a retry_count past the limit written
\* into the Validator
C26_ParseFailureAtHighRetryCount ==
  /\ asked.node = "validator"
  /\ ParseFails(asked.llm)
  /\ validated.retry_count >= ValidatorRetryLimit
  /\ state.should_retry
  /\ state.retry_count = validated.retry_count + 1

\* C27: when the Planner's LLM response cannot be parsed, the Planner does
\* not abort: it returns a degraded query_plan whose instructions forward the
\* raw user_query, records the parse error in error_message, and the run goes
\* on to the SQL Generator with that plan.
C27_PlannerParseFailureDegrades ==
  [][pc = "planner" /\ ParseFails(asked'.llm) =>
       /\ pc' = "sql_generator"
       /\ raised' = <<>>
       /\ Get(state'.query_plan, "instructions", PyNone) =
            PyStr(<<"Please retrieve data to answer: ">> \o state.user_query)
       /\ Get(state'.query_plan, "complexity", PyNone) = PyStr(<<"unknown">>)
       /\ state'.error_message = PyStr(parse_json_response(asked'.llm.content).err)
       /\ state'.user_query = state.user_query]_vars

\* the SQL Generator ran on the degraded plan of an unparsable Planner response
C27_SqlGeneratedFromDegradedPlan ==
  /\ Runs("sql_generator") >= 1
  /\ Get(state.query_plan, "user_intent", PyNone) = PyStr(<<"Failed to analyze the question">>)
  /\ Get(state.query_plan, "instructions", PyNone) =
       PyStr(<<"Please retrieve data to answer: ">> \o state.user_query)
  /\ pc = "validator"

\* the engine runs the query of this call: the query is a string and the
\* engine does not reject it
EngineExecutes(call) == call.query.ty = "str" /\ ~call.engine.rejects

\* C28: DatabaseManager.execute_query reports failure as a value: for SQL the
\* engine executes it hands back the rows with error = None, for SQL the engine
\* rejects an empty result together with an error message that is not None.
C28_ExecuteQueryReportsByValue ==
  db_call.called =>
    IF EngineExecutes(db_call)
    THEN db_call.df = db_call.engine.rows /\ db_call.error = PyNone
    ELSE /\ db_call.df = 0
         /\ db_call.error.ty = "str"
         /\ db_call.error.s # <<>>
         /\ db_call.query.ty = "str" => db_call.error = PyStr(db_call.engine.message)

\* execute_query has been called with a query that is no string and was
\* refused before it reached the engine
C28_NonTextQueryRefused ==
  /\ db_call.called
  /\ db_call.query.ty = "num"
  /\ db_call.df = 0
  /\ db_call.error.ty = "str"
  /\ state.sql_result.success = FALSE

\* C29: with max_retries = M >= 1 one execute run invokes the SQL Generator at
\* most M times, whatever the Validator returns, parse failures included; with
\* M = 0 a run that gets to the SQL Generator invokes it exactly once.
C29_AttemptBound ==
  /\ max_retries >= 1 => Runs("sql_generator") <= max_retries
  /\ max_retries = 0 => Runs("sql_generator") <= 1
  /\ max_retries = 0 /\ pc = "returned" /\ Runs("planner") = 1 /\ raised = <<>> =>
       Runs("sql_generator") = 1

\* a run whose every Validator response was unparsable used all the attempts
\* the configuration gives and then went on to the Writer
C29_AllAttemptsUsed ==
  /\ max_retries = MaxMaxRetries
  /\ Runs("sql_generator") = max_retries
  /\ verdicts.passes = max_retries
  /\ asked.node = "validator"
  /\ ParseFails(asked.llm)
  /\ pc = "writer"

\* the Guardrail has just run on an LLM response
GuardrailAnswered == trace = <<"guardrail">> /\ asked.node = "guardrail" /\ ~asked.llm.raises

\* C30: for a non-empty query that matches no attack pattern, the Guardrail
\* blocks only when its LLM response carries an explicit BLOCK decision; a
\* response from which no ALLOW or BLOCK decision can be read (unparsable text,
\* an object without a decision, an unrecognised decision) does not block the
\* query, and the run goes on to the Planner.
C30_BlocksOnlyOnExplicitBlock ==
  GuardrailAnswered =>
    /\ pc = "blocked_response" => ExplicitDecision(asked.llm) = BLOCK
    /\ ExplicitDecision(asked.llm) \notin {ALLOW, BLOCK} => pc = "planner"

====
